---- MODULE Spec2Model ----
(***************************************************************************)
(* Model of the rolling file appender (RollingFileAppenderUtc) and of the  *)
(* basic rolling condition (RollingConditionBasicGeneric<Utc>).            *)
(*                                                                         *)
(* File contents are sequences of bytes; a byte is represented by the      *)
(* number of the write call that supplied it (1, 2, ...), 0 for a byte     *)
(* that was in the active file before construction and -i for the byte of  *)
(* a backup .i that was in the directory before construction.              *)
(***************************************************************************)
EXTENDS Integers, Sequences, FiniteSets, TLC

\* ------------------------------------------------------------------ bounds
MaxWrites == 2        \* write_with_datetime calls per behaviour
MaxBufLen == 2        \* longest buffer handed to a write
MaxPreLen == 2        \* longest active file found at construction
MaxFilesBound == 2    \* largest max_files
MaxThreshold == 2     \* the size threshold of a condition that has one
MaxFaults == 1        \* file-system calls that fail per behaviour
MaxFaultsDeep == 2    \* the same, where a rollover and the write that
                      \* called it may both fail
BufCapacity == 2      \* capacity of the BufWriter (scaled)
WordBits == 5         \* width of the size counter (scaled from 64)
MaxIdx == MaxFilesBound + 1   \* highest file suffix of the directory

\* ------------------------------------------------------- small helpers
Max2(a, b) == IF a >= b THEN a ELSE b

Min2(a, b) == IF a <= b THEN a ELSE b

Rep(x, n) == [i \in 1..n |-> x]

Prefix(s, k) == SubSeq(s, 1, k)

Suffix(s, k) == SubSeq(s, k + 1, Len(s))

\* Option values
NoneInt == [some |-> FALSE, v |-> 0]

SomeInt(x) == [some |-> TRUE, v |-> x]

NoneFreq == [some |-> FALSE, v |-> "none"]

SomeFreq(f) == [some |-> TRUE, v |-> f]

\* io::Result values: err is "" on Ok, idx is the index of the failing
\* rename for a rename error (-1 otherwise), n the usize of an Ok(n).
Ok == [ok |-> TRUE, err |-> "", idx |-> -1, n |-> 0]

\* io::Result<usize>: Ok(n)
OkLen(k) == [ok |-> TRUE, err |-> "", idx |-> -1, n |-> k]

Err(e) == [ok |-> FALSE, err |-> e, idx |-> -1, n |-> 0]

ErrAt(e, i) == [ok |-> FALSE, err |-> e, idx |-> i, n |-> 0]

\* ------------------------------------------------------------ timestamps
Ymd(y, m, d) == [year |-> y, month |-> m, day |-> d]

AndHms(date, h, mi, s) ==
  [year |-> date.year, month |-> date.month, day |-> date.day,
   hour |-> h, minute |-> mi, second |-> s]

\* The timestamps handed to writes: a base instant and instants that
\* differ from it in the second, the minute, the hour and the day only.
BaseTime == AndHms(Ymd(2021, 3, 30), 1, 2, 0)

NextDay == AndHms(Ymd(2021, 3, 31), 1, 2, 0)

DateTime ==
  {BaseTime, AndHms(Ymd(2021, 3, 30), 1, 2, 3),
   AndHms(Ymd(2021, 3, 30), 1, 3, 0), AndHms(Ymd(2021, 3, 30), 2, 2, 0),
   NextDay}

NoDateTime == AndHms(Ymd(0, 0, 0), 0, 0, 0)

NoneTime == [some |-> FALSE, v |-> NoDateTime]

SomeTime(t) == [some |-> TRUE, v |-> t]

RollingFrequency == {"EveryDay", "EveryHour", "EveryMinute"}

\* equivalent_datetime that keeps the time of day but not the date
equivalent_datetime_nodate(frequency, dt) ==
  CASE frequency = "EveryDay" ->
         AndHms(Ymd(dt.year, dt.month, dt.day), 0, 0, 0)
    [] frequency = "EveryHour" ->
         AndHms(Ymd(0, 0, 0), dt.hour, 0, 0)
    [] frequency = "EveryMinute" ->
         AndHms(Ymd(0, 0, 0), dt.hour, dt.minute, 0)

\* RollingFrequency::equivalent_datetime
equivalent_datetime(frequency, dt) ==
  CASE frequency = "EveryDay" ->
         AndHms(Ymd(dt.year, dt.month, dt.day), 0, 0, 0)
    [] frequency = "EveryHour" ->
         AndHms(Ymd(dt.year, dt.month, dt.day), dt.hour, 0, 0)
    [] frequency = "EveryMinute" ->
         AndHms(Ymd(dt.year, dt.month, dt.day), dt.hour, dt.minute, 0)

\* ------------------------------------------------------ rolling condition
\* RollingConditionBasicGeneric: the three fields of the struct
Condition(lw, fr, ms) ==
  [last_write_opt |-> lw, frequency_opt |-> fr, max_size_opt |-> ms]

\* RollingConditionBasicGeneric::new: no condition set yet
new_condition == Condition(NoneTime, NoneFreq, NoneInt)

\* RollingConditionBasicGeneric::frequency
frequency(self, x) == [self EXCEPT !.frequency_opt = SomeFreq(x)]

\* RollingConditionBasicGeneric::daily
daily(self) == [self EXCEPT !.frequency_opt = SomeFreq("EveryDay")]

\* RollingConditionBasicGeneric::hourly
hourly(self) == [self EXCEPT !.frequency_opt = SomeFreq("EveryHour")]

\* RollingConditionBasicGeneric::max_size
max_size(self, x) == [self EXCEPT !.max_size_opt = SomeInt(x)]

\* Default::default with the frequency EveryHour
default_hourly == frequency(new_condition, "EveryHour")

\* Default::default of RollingConditionBasicGeneric
default == frequency(new_condition, "EveryDay")

\* should_rollover that requires the time test and the size test together
\* when both are configured
should_rollover_and(cond, now, current_size) ==
  LET byTime == /\ cond.frequency_opt.some
                /\ cond.last_write_opt.some
                /\ equivalent_datetime(cond.frequency_opt.v, now)
                     # equivalent_datetime(cond.frequency_opt.v,
                                           cond.last_write_opt.v)
      bySize == /\ cond.max_size_opt.some
                /\ current_size >= cond.max_size_opt.v
  IN [rollover |-> IF cond.frequency_opt.some /\ cond.max_size_opt.some
                     THEN byTime /\ bySize ELSE byTime \/ bySize,
      cond |-> [cond EXCEPT !.last_write_opt = SomeTime(now)]]

\* should_rollover that records the timestamp only when it asks for a
\* rollover or has none recorded
should_rollover_lazy(cond, now, current_size) ==
  LET byTime == /\ cond.frequency_opt.some
                /\ cond.last_write_opt.some
                /\ equivalent_datetime(cond.frequency_opt.v, now)
                     # equivalent_datetime(cond.frequency_opt.v,
                                           cond.last_write_opt.v)
      bySize == /\ cond.max_size_opt.some
                /\ current_size >= cond.max_size_opt.v
  IN [rollover |-> byTime \/ bySize,
      cond |-> IF byTime \/ bySize \/ ~cond.last_write_opt.some
                 THEN [cond EXCEPT !.last_write_opt = SomeTime(now)]
                 ELSE cond]

\* should_rollover that takes a first call with a frequency configured as
\* a change of period
should_rollover_first(cond, now, current_size) ==
  LET byTime == /\ cond.frequency_opt.some
                /\ \/ ~cond.last_write_opt.some
                   \/ equivalent_datetime(cond.frequency_opt.v, now)
                        # equivalent_datetime(cond.frequency_opt.v,
                                              cond.last_write_opt.v)
      bySize == /\ cond.max_size_opt.some
                /\ current_size >= cond.max_size_opt.v
  IN [rollover |-> byTime \/ bySize,
      cond |-> [cond EXCEPT !.last_write_opt = SomeTime(now)]]

\* should_rollover with the size test written `>` instead of `>=`
should_rollover_gt(cond, now, current_size) ==
  LET byTime == /\ cond.frequency_opt.some
                /\ cond.last_write_opt.some
                /\ equivalent_datetime(cond.frequency_opt.v, now)
                     # equivalent_datetime(cond.frequency_opt.v,
                                           cond.last_write_opt.v)
      bySize == /\ cond.max_size_opt.some
                /\ current_size > cond.max_size_opt.v
  IN [rollover |-> byTime \/ bySize,
      cond |-> [cond EXCEPT !.last_write_opt = SomeTime(now)]]

\* RollingConditionBasicGeneric::should_rollover; the result carries the
\* returned flag and the condition as the call leaves it.
should_rollover(cond, now, current_size) ==
  LET byTime == /\ cond.frequency_opt.some
                /\ cond.last_write_opt.some
                /\ equivalent_datetime(cond.frequency_opt.v, now)
                     # equivalent_datetime(cond.frequency_opt.v,
                                           cond.last_write_opt.v)
      bySize == /\ cond.max_size_opt.some
                /\ current_size >= cond.max_size_opt.v
  IN [rollover |-> byTime \/ bySize,
      cond |-> [cond EXCEPT !.last_write_opt = SomeTime(now)]]

\* ------------------------------------------------------------ file system
\* The directory is a function from the file suffix (0 is the active file,
\* the one without suffix; filename_for(n) names suffix n) to a file.
Absent == [exists |-> FALSE, data |-> <<>>]

File(bytes) == [exists |-> TRUE, data |-> bytes]

\* write(2) on the file opened in append mode
AppendBytes(files, bytes) ==
  [files EXCEPT ![0] = File(@.data \o bytes)]

\* fs::rename: replaces the destination, removes the source
Rename(files, from, to) ==
  [files EXCEPT ![to] = files[from], ![from] = Absent]

\* ------------------------------------------------------------- the writer
\* Option<BufWriter<File>>: buf holds the bytes accepted but not yet
\* written to the file.
NoWriter == [some |-> FALSE, buf |-> <<>>]

Writer(b) == [some |-> TRUE, buf |-> b]

\* The engine state handed from one step of a handler to the next.
\* faults counts the file-system calls that have failed so far.
EngineState(f, w, sz, io) ==
  [files |-> f, writer_opt |-> w, current_filesize |-> sz, faults |-> io]

Outcome(st, res) == [st |-> st, res |-> res]

\* BufWriter::flush_buf: writes the buffered bytes to the file; a failure
\* leaves the bytes already written in the file and the rest in the buffer.
flush_buf(st) ==
  LET b == st.writer_opt.buf
  IN {Outcome([st EXCEPT !.files = AppendBytes(@, b),
                         !.writer_opt = Writer(<<>>)], Ok)}
     \cup
     {Outcome([st EXCEPT !.files = AppendBytes(@, Prefix(b, k)),
                         !.writer_opt = Writer(Suffix(b, k)),
                         !.faults = @ + 1], Err("flush"))
        : k \in 0..(Len(b) - 1)}

\* flush that reports a missing writer as an error
flush_strict(st) ==
  IF st.writer_opt.some THEN flush_buf(st)
  ELSE {Outcome(st, Err("writer is missing"))}

\* io::Write::flush of the appender
flush(st) ==
  IF st.writer_opt.some THEN flush_buf(st) ELSE {Outcome(st, Ok)}

\* Option::take followed by the drop of the BufWriter: the drop flushes the
\* buffer and ignores a failure, the bytes left in the buffer are lost.
take_writer(st) ==
  IF st.writer_opt.some
    THEN {[o.st EXCEPT !.writer_opt = NoWriter] : o \in flush_buf(st)}
    ELSE {st}

\* BufWriter::write_all: a buffer shorter than the spare capacity is
\* copied; otherwise the buffered bytes are flushed when the buffer does
\* not fit, and a buffer of at least the capacity goes to the file
\* directly (a failure leaves a prefix of it in the file).
write_all(st, bytes) ==
  LET spare == BufCapacity - Len(st.writer_opt.buf)
      copy(s) == [s EXCEPT !.writer_opt = Writer(@.buf \o bytes)]
      direct(s) ==
        {Outcome([s EXCEPT !.files = AppendBytes(@, bytes)], Ok)}
        \cup
        {Outcome([s EXCEPT !.files = AppendBytes(@, Prefix(bytes, k)),
                           !.faults = @ + 1], Err("write"))
           : k \in 0..(Len(bytes) - 1)}
      cold(s) ==
        IF Len(bytes) >= BufCapacity THEN direct(s)
        ELSE {Outcome(copy(s), Ok)}
  IN IF Len(bytes) < spare THEN {Outcome(copy(st), Ok)}
     ELSE IF Len(bytes) > spare
       THEN UNION {IF o.res.ok THEN cold(o.st)
                   ELSE {Outcome(o.st, Err("write"))} : o \in flush_buf(st)}
       ELSE cold(st)

\* -------------------------------------------------------------- the engine
U64_MAX == 2^WordBits - 1

\* `current_filesize += u64::try_from(buf_len).unwrap_or(u64::MAX)`: the
\* conversion from usize never fails; the addition is the plain `+=` of
\* u64, which on overflow panics in a build with overflow checks and wraps
\* in a build without them.
add_filesize(s, b) ==
  IF s + b <= U64_MAX
    THEN {[panic |-> FALSE, v |-> s + b]}
    ELSE {[panic |-> TRUE, v |-> s],
          [panic |-> FALSE, v |-> (s + b) % (U64_MAX + 1)]}

\* rename_loop that copies the active file to .1 and leaves it in place
RECURSIVE rename_loop_copy_active(_, _, _, _)
rename_loop_copy_active(files, i, fails, r) ==
  IF i < 0 THEN [files |-> files, res |-> r]
  ELSE IF i \in fails
    THEN rename_loop_copy_active(files, i - 1, fails, ErrAt("rename", i))
  ELSE IF ~files[i].exists
    THEN rename_loop_copy_active(files, i - 1, fails, r)
  ELSE IF i = 0
    THEN rename_loop_copy_active([files EXCEPT ![1] = files[0]], i - 1,
                                 fails, r)
  ELSE rename_loop_copy_active(Rename(files, i, i + 1), i - 1, fails, r)

\* rename_loop that keeps the first error it meets, not the last
RECURSIVE rename_loop_first_error(_, _, _, _)
rename_loop_first_error(files, i, fails, r) ==
  IF i < 0 THEN [files |-> files, res |-> r]
  ELSE IF i \in fails
    THEN rename_loop_first_error(files, i - 1, fails,
                                 IF r.ok THEN ErrAt("rename", i) ELSE r)
  ELSE IF ~files[i].exists
    THEN rename_loop_first_error(files, i - 1, fails, r)
  ELSE rename_loop_first_error(Rename(files, i, i + 1), i - 1, fails, r)

\* rename_loop that stops at the first rename that fails
RECURSIVE rename_loop_abort(_, _, _, _)
rename_loop_abort(files, i, fails, r) ==
  IF i < 0 THEN [files |-> files, res |-> r]
  ELSE IF i \in fails
    THEN [files |-> files, res |-> ErrAt("rename", i)]
  ELSE IF ~files[i].exists
    THEN rename_loop_abort(files, i - 1, fails, r)
  ELSE rename_loop_abort(Rename(files, i, i + 1), i - 1, fails, r)

\* the renames of the loop done in ascending order, from index lo up to i
RECURSIVE rename_up(_, _, _, _, _)
rename_up(files, lo, i, fails, r) ==
  IF lo > i THEN [files |-> files, res |-> r]
  ELSE IF lo \in fails
    THEN rename_up(files, lo + 1, i, fails, ErrAt("rename", lo))
  ELSE IF ~files[lo].exists
    THEN rename_up(files, lo + 1, i, fails, r)
  ELSE rename_up(Rename(files, lo, lo + 1), lo + 1, i, fails, r)

\* rename_loop without the .rev()
rename_loop_ascending(files, i, fails, r) == rename_up(files, 0, i, fails, r)

\* the loop of rotate_files: i runs from max(max_files,1)-1 down to 0,
\* fails is the set of indices whose rename fails with an error other than
\* NotFound (the rename of a file that exists), r the result captured so
\* far.
RECURSIVE rename_loop(_, _, _, _)
rename_loop(files, i, fails, r) ==
  IF i < 0 THEN [files |-> files, res |-> r]
  ELSE IF i \in fails
    THEN rename_loop(files, i - 1, fails, ErrAt("rename", i))
  ELSE IF ~files[i].exists
    THEN rename_loop(files, i - 1, fails, r)
  ELSE rename_loop(Rename(files, i, i + 1), i - 1, fails, r)

\* rotate_files keeping one backup more than max(max_files, 1)
rotate_files_one_more(st, max_files) ==
  LET n == Max2(max_files, 1) + 1
      removed == {[st.files EXCEPT ![n] = Absent]}
                 \cup (IF st.files[n].exists THEN {st.files} ELSE {})
  IN UNION {
       {LET l == rename_loop(f, n - 1, fails, Ok)
        IN Outcome([st EXCEPT !.files = l.files,
                              !.faults = @ + Cardinality(fails)
                                           + (IF f[n].exists THEN 1 ELSE 0)],
                   l.res)
          : fails \in SUBSET {i \in 0..(n - 1) : f[i].exists}}
       : f \in removed}

\* rotate_files with the loop over the inclusive range 0..=n
rotate_files_inclusive(st, max_files) ==
  LET n == Max2(max_files, 1)
      removed == {[st.files EXCEPT ![n] = Absent]}
                 \cup (IF st.files[n].exists THEN {st.files} ELSE {})
  IN UNION {
       {LET l == rename_loop(f, n, fails, Ok)
        IN Outcome([st EXCEPT !.files = l.files,
                              !.faults = @ + Cardinality(fails)
                                           + (IF f[n].exists THEN 1 ELSE 0)],
                   l.res)
          : fails \in SUBSET {i \in 0..(n - 1) : f[i].exists}}
       : f \in removed}

\* rotate_files that returns the error of remove_file (`remove_file(..)?`)
rotate_files_strict_remove(st, max_files) ==
  LET n == Max2(max_files, 1)
      removed == {[st.files EXCEPT ![n] = Absent]}
                 \cup (IF st.files[n].exists THEN {st.files} ELSE {})
  IN UNION {
       IF f[n].exists
         THEN {Outcome([st EXCEPT !.faults = @ + 1], Err("remove"))}
         ELSE {LET l == rename_loop(f, n - 1, fails, Ok)
               IN Outcome([st EXCEPT !.files = l.files,
                                     !.faults = @ + Cardinality(fails)],
                          l.res)
                 : fails \in SUBSET {i \in 0..(n - 1) : f[i].exists}}
       : f \in removed}

\* RollingFileAppenderUtc::rotate_files
rotate_files(st, max_files) ==
  LET n == Max2(max_files, 1)
      removed == {[st.files EXCEPT ![n] = Absent]}
                 \cup (IF st.files[n].exists THEN {st.files} ELSE {})
  IN UNION {
       {LET l == rename_loop(f, n - 1, fails, Ok)
        IN Outcome([st EXCEPT !.files = l.files,
                              !.faults = @ + Cardinality(fails)
                                           + (IF f[n].exists THEN 1 ELSE 0)],
                   l.res)
          : fails \in SUBSET {i \in 0..(n - 1) : f[i].exists}}
       : f \in removed}

\* open_writer_if_needed that returns Ok when the open fails
open_writer_if_needed_silent(st) ==
  IF ~st.writer_opt.some
    THEN LET created == IF st.files[0].exists THEN st.files
                        ELSE [st.files EXCEPT ![0] = File(<<>>)]
         IN {Outcome([st EXCEPT !.faults = @ + 1], Ok),
             Outcome([st EXCEPT !.files = created,
                                !.writer_opt = Writer(<<>>),
                                !.current_filesize = Len(created[0].data)],
                     Ok),
             Outcome([st EXCEPT !.files = created,
                                !.writer_opt = Writer(<<>>),
                                !.current_filesize = 0,
                                !.faults = @ + 1],
                     Ok)}
    ELSE {Outcome(st, Ok)}

\* RollingFileAppenderUtc::open_writer_if_needed
open_writer_if_needed(st) ==
  IF ~st.writer_opt.some
    THEN LET created == IF st.files[0].exists THEN st.files
                        ELSE [st.files EXCEPT ![0] = File(<<>>)]
         IN {Outcome([st EXCEPT !.faults = @ + 1], Err("open")),
             Outcome([st EXCEPT !.files = created,
                                !.writer_opt = Writer(<<>>),
                                !.current_filesize = Len(created[0].data)],
                     Ok),
             Outcome([st EXCEPT !.files = created,
                                !.writer_opt = Writer(<<>>),
                                !.current_filesize = 0,
                                !.faults = @ + 1],
                     Ok)}
    ELSE {Outcome(st, Ok)}

\* rollover that returns after rotate_files, without reopening
rollover_no_reopen(st, max_files) ==
  UNION {
    IF ~fl.res.ok THEN {fl}
    ELSE UNION {
      rotate_files([closed EXCEPT !.current_filesize = 0], max_files)
      : closed \in take_writer(fl.st)}
    : fl \in flush(st)}

\* rollover without `self.flush()?`: the buffered bytes are left to the
\* drop of the writer
rollover_no_flush(st, max_files) ==
  UNION {
    UNION {
      IF ~rot.res.ok THEN {rot}
      ELSE open_writer_if_needed(rot.st)
      : rot \in rotate_files([closed EXCEPT !.current_filesize = 0],
                             max_files)}
    : closed \in take_writer(st)}

\* RollingFileAppenderUtc::rollover
rollover(st, max_files) ==
  UNION {
    IF ~fl.res.ok THEN {fl}
    ELSE UNION {
      UNION {
        IF ~rot.res.ok THEN {rot}
        ELSE open_writer_if_needed(rot.st)
        : rot \in rotate_files([closed EXCEPT !.current_filesize = 0],
                               max_files)}
      : closed \in take_writer(fl.st)}
    : fl \in flush(st)}

\* write_with_datetime returning the error of the rollover (`rollover()?`)
write_with_datetime_propagate(st, cond, max_files, bytes, now) ==
  LET d == should_rollover(cond, now, st.current_filesize)
      rolled == IF d.rollover THEN rollover(st, max_files)
                ELSE {Outcome(st, Ok)}
      done(s, res, ro) ==
        [st |-> s, res |-> res, cond |-> d.cond,
         rolled |-> d.rollover, rollres |-> ro.res]
      append(s, ro) ==
        IF s.writer_opt.some
          THEN UNION {
            IF ~w.res.ok THEN {done(w.st, w.res, ro)}
            ELSE {IF a.panic THEN done(w.st, Err("panic"), ro)
                  ELSE done([w.st EXCEPT !.current_filesize = a.v],
                            OkLen(Len(bytes)), ro)
                    : a \in add_filesize(w.st.current_filesize, Len(bytes))}
            : w \in write_all(s, bytes)}
          ELSE {done(s, Err("writer is missing"), ro)}
  IN UNION {
       IF ~ro.res.ok THEN {done(ro.st, ro.res, ro)}
       ELSE UNION {
         IF ~op.res.ok THEN {done(op.st, op.res, ro)}
         ELSE append(op.st, ro)
         : op \in open_writer_if_needed(ro.st)}
       : ro \in rolled}

\* write_with_datetime adding the buffer length to the counter whether or
\* not write_all succeeded
write_with_datetime_count_first(st, cond, max_files, bytes, now) ==
  LET d == should_rollover(cond, now, st.current_filesize)
      rolled == IF d.rollover THEN rollover(st, max_files)
                ELSE {Outcome(st, Ok)}
      done(s, res, ro) ==
        [st |-> s, res |-> res, cond |-> d.cond,
         rolled |-> d.rollover, rollres |-> ro.res]
      append(s, ro) ==
        IF s.writer_opt.some
          THEN UNION {
            {IF a.panic THEN done(w.st, Err("panic"), ro)
             ELSE done([w.st EXCEPT !.current_filesize = a.v],
                       IF w.res.ok THEN OkLen(Len(bytes)) ELSE w.res, ro)
               : a \in add_filesize(w.st.current_filesize, Len(bytes))}
            : w \in write_all(s, bytes)}
          ELSE {done(s, Err("writer is missing"), ro)}
  IN UNION {
       UNION {
         IF ~op.res.ok THEN {done(op.st, op.res, ro)}
         ELSE append(op.st, ro)
         : op \in open_writer_if_needed(ro.st)}
       : ro \in rolled}

\* write_with_datetime that also rotates when it finds the writer closed
write_with_datetime_eager(st, cond, max_files, bytes, now) ==
  LET d == should_rollover(cond, now, st.current_filesize)
      rolled == IF d.rollover \/ ~st.writer_opt.some THEN rollover(st, max_files)
                ELSE {Outcome(st, Ok)}
      done(s, res, ro) ==
        [st |-> s, res |-> res, cond |-> d.cond,
         rolled |-> d.rollover, rollres |-> ro.res]
      append(s, ro) ==
        IF s.writer_opt.some
          THEN UNION {
            IF ~w.res.ok THEN {done(w.st, w.res, ro)}
            ELSE {IF a.panic THEN done(w.st, Err("panic"), ro)
                  ELSE done([w.st EXCEPT !.current_filesize = a.v],
                            OkLen(Len(bytes)), ro)
                    : a \in add_filesize(w.st.current_filesize, Len(bytes))}
            : w \in write_all(s, bytes)}
          ELSE {done(s, Err("writer is missing"), ro)}
  IN UNION {
       UNION {
         IF ~op.res.ok THEN {done(op.st, op.res, ro)}
         ELSE append(op.st, ro)
         : op \in open_writer_if_needed(ro.st)}
       : ro \in rolled}

\* write_with_datetime that takes its decision on the length it would
\* read at the reopen when the writer is closed
write_with_datetime_reopen_first(st, cond, max_files, bytes, now) ==
  LET d == should_rollover(cond, now,
                           IF st.writer_opt.some THEN st.current_filesize
                           ELSE Len(st.files[0].data))
      rolled == IF d.rollover THEN rollover(st, max_files)
                ELSE {Outcome(st, Ok)}
      done(s, res, ro) ==
        [st |-> s, res |-> res, cond |-> d.cond,
         rolled |-> d.rollover, rollres |-> ro.res]
      append(s, ro) ==
        IF s.writer_opt.some
          THEN UNION {
            IF ~w.res.ok THEN {done(w.st, w.res, ro)}
            ELSE {IF a.panic THEN done(w.st, Err("panic"), ro)
                  ELSE done([w.st EXCEPT !.current_filesize = a.v],
                            OkLen(Len(bytes)), ro)
                    : a \in add_filesize(w.st.current_filesize, Len(bytes))}
            : w \in write_all(s, bytes)}
          ELSE {done(s, Err("writer is missing"), ro)}
  IN UNION {
       UNION {
         IF ~op.res.ok THEN {done(op.st, op.res, ro)}
         ELSE append(op.st, ro)
         : op \in open_writer_if_needed(ro.st)}
       : ro \in rolled}

\* write_with_datetime that forgets the timestamp of a write whose rollover
\* failed, so that the next write tries again
write_with_datetime_retry(st, cond, max_files, bytes, now) ==
  LET d == should_rollover(cond, now, st.current_filesize)
      rolled == IF d.rollover THEN rollover(st, max_files)
                ELSE {Outcome(st, Ok)}
      done(s, res, ro) ==
        [st |-> s, res |-> res,
                cond |-> IF d.rollover /\ ~ro.res.ok THEN cond ELSE d.cond,
         rolled |-> d.rollover, rollres |-> ro.res]
      append(s, ro) ==
        IF s.writer_opt.some
          THEN UNION {
            IF ~w.res.ok THEN {done(w.st, w.res, ro)}
            ELSE {IF a.panic THEN done(w.st, Err("panic"), ro)
                  ELSE done([w.st EXCEPT !.current_filesize = a.v],
                            OkLen(Len(bytes)), ro)
                    : a \in add_filesize(w.st.current_filesize, Len(bytes))}
            : w \in write_all(s, bytes)}
          ELSE {done(s, Err("writer is missing"), ro)}
  IN UNION {
       UNION {
         IF ~op.res.ok THEN {done(op.st, op.res, ro)}
         ELSE append(op.st, ro)
         : op \in open_writer_if_needed(ro.st)}
       : ro \in rolled}

\* RollingFileAppenderUtc::write_with_datetime.  The outcome carries, next
\* to the engine state and the returned result, the condition as
\* should_rollover leaves it, whether rollover() was called and what it
\* returned.
write_with_datetime(st, cond, max_files, bytes, now) ==
  LET d == should_rollover(cond, now, st.current_filesize)
      rolled == IF d.rollover THEN rollover(st, max_files)
                ELSE {Outcome(st, Ok)}
      done(s, res, ro) ==
        [st |-> s, res |-> res, cond |-> d.cond,
         rolled |-> d.rollover, rollres |-> ro.res]
      append(s, ro) ==
        IF s.writer_opt.some
          THEN UNION {
            IF ~w.res.ok THEN {done(w.st, w.res, ro)}
            ELSE {IF a.panic THEN done(w.st, Err("panic"), ro)
                  ELSE done([w.st EXCEPT !.current_filesize = a.v],
                            OkLen(Len(bytes)), ro)
                    : a \in add_filesize(w.st.current_filesize, Len(bytes))}
            : w \in write_all(s, bytes)}
          ELSE {done(s, Err("writer is missing"), ro)}
  IN UNION {
       UNION {
         IF ~op.res.ok THEN {done(op.st, op.res, ro)}
         ELSE append(op.st, ro)
         : op \in open_writer_if_needed(ro.st)}
       : ro \in rolled}

\* ------------------------------------------------------------------ state
VARIABLES
  phase,             \* "new", "ready", "failed" (new returned Err), "panicked"
  max_files,         \* RollingFileAppenderUtc.max_files
  condition,         \* RollingFileAppenderUtc.condition
  current_filesize,  \* RollingFileAppenderUtc.current_filesize
  writer_opt,        \* RollingFileAppenderUtc.writer_opt
  files,             \* the directory: base_filename, base_filename.1, ...
  faults,            \* number of file-system calls that have failed so far
  fault_budget,      \* environment: how many file-system calls may fail
  instants,          \* environment: the timestamps the caller hands to writes
  accepted,          \* per write call: length, success, rotations since,
                     \* timestamp
  ev,                \* the last operation and what it returned
  probe              \* what a call of a single function was given and
                     \* returned, where a function is exercised on its own

vars == <<phase, max_files, condition, current_filesize, writer_opt, files,
          faults, fault_budget, instants, accepted, ev, probe>>

env == <<max_files, fault_budget, instants, probe>>

NoProbe == [how |-> "none"]

Engine == EngineState(files, writer_opt, current_filesize, faults)

NoEvent ==
  [op |-> "none", res |-> Ok, rolled |-> FALSE, rollres |-> Ok,
   now |-> NoDateTime, len |-> 0]

Event(op, res, rolled, rollres, now, len) ==
  [op |-> op, res |-> res, rolled |-> rolled, rollres |-> rollres,
   now |-> now, len |-> len]

\* a directory: the active file a and one-byte backups at the suffixes P
Dir(a, P) ==
  [i \in 0..MaxIdx |->
     IF i = 0 THEN a
     ELSE IF i \in P THEN File(<<-i>>) ELSE Absent]

\* directories found at construction with max_files = k: an empty one, and
\* ones left by an earlier run, with an active file of MaxPreLen bytes and
\* no backup, the backups .1 .. .N, or the backups .1 .. .{N+1}, where
\* N = max(k, 1)
PreDirs(k) ==
  LET n == Max2(k, 1)
  IN {Dir(Absent, {})}
     \cup {Dir(File(Rep(0, MaxPreLen)), P) : P \in {{}, 1..n, 1..(n + 1)}}

\* the conditions the builder can produce: new(), optionally followed by
\* frequency()/daily()/hourly() and by max_size()
Conditions ==
  {Condition(NoneTime, fr, ms)
     : fr \in {NoneFreq} \cup {SomeFreq(f) : f \in RollingFrequency},
       ms \in {NoneInt, SomeInt(MaxThreshold)}}

Init ==
  /\ phase = "new"
  /\ max_files \in {0, MaxFilesBound}
  /\ condition \in Conditions
  /\ current_filesize = 0
  /\ writer_opt = NoWriter
  /\ files \in PreDirs(max_files)
  /\ faults = 0
  /\ fault_budget \in {0, MaxFaults, MaxFaultsDeep}
  /\ instants \in {{BaseTime}, {BaseTime, NextDay}, DateTime}
  /\ accepted = <<>>
  /\ ev = NoEvent
  /\ probe = NoProbe

SetEngine(st) ==
  /\ files' = st.files
  /\ writer_opt' = st.writer_opt
  /\ current_filesize' = st.current_filesize
  /\ faults' = st.faults

\* one more completed rotation behind every write accepted so far
Rotated(acc) ==
  [i \in 1..Len(acc) |-> [acc[i] EXCEPT !.rots = Min2(@ + 1, MaxIdx)]]

\* RollingFileAppenderUtc::new
Construct ==
  /\ phase = "new"
  /\ \E o \in open_writer_if_needed(Engine) :
       /\ o.st.faults <= fault_budget
       /\ SetEngine(o.st)
       /\ phase' = IF o.res.ok THEN "ready" ELSE "failed"
       /\ ev' = Event("new", o.res, FALSE, Ok, NoDateTime, 0)
  /\ UNCHANGED <<env, condition, accepted>>

\* a call of write_with_datetime, the limit-th call of a behaviour at most
WriteCalls(limit) ==
  /\ phase = "ready"
  /\ Len(accepted) < limit
  /\ \E now \in instants, len \in 1..MaxBufLen :
       \E o \in write_with_datetime(Engine, condition, max_files,
                                    Rep(Len(accepted) + 1, len), now) :
         /\ o.st.faults <= fault_budget
         /\ SetEngine(o.st)
         /\ condition' = o.cond
         /\ phase' = IF o.res.err = "panic" THEN "panicked" ELSE "ready"
         /\ accepted' =
              Append(IF o.rolled /\ o.rollres.ok THEN Rotated(accepted)
                     ELSE accepted,
                     [len |-> len, ok |-> o.res.ok, rots |-> 0, now |-> now])
         /\ ev' = Event("write", o.res, o.rolled, o.rollres, now, len)
  /\ UNCHANGED env

WriteWithDatetime == WriteCalls(MaxWrites)

Flush ==
  /\ phase = "ready"
  /\ \E o \in flush(Engine) :
       /\ o.st.faults <= fault_budget
       /\ SetEngine(o.st)
       /\ ev' = Event("flush", o.res, FALSE, Ok, NoDateTime, 0)
  /\ UNCHANGED <<phase, env, condition, accepted>>

\* an explicit rollover that makes the condition forget the last timestamp
Rollover_reset ==
  /\ phase = "ready"
  /\ \E o \in rollover(Engine, max_files) :
       /\ o.st.faults <= fault_budget
       /\ SetEngine(o.st)
       /\ accepted' = IF o.res.ok THEN Rotated(accepted) ELSE accepted
       /\ ev' = Event("rollover", o.res, TRUE, o.res, NoDateTime, 0)
  /\ condition' = [condition EXCEPT !.last_write_opt = NoneTime]
  /\ UNCHANGED <<phase, env>>

Rollover ==
  /\ phase = "ready"
  /\ \E o \in rollover(Engine, max_files) :
       /\ o.st.faults <= fault_budget
       /\ SetEngine(o.st)
       /\ accepted' = IF o.res.ok THEN Rotated(accepted) ELSE accepted
       /\ ev' = Event("rollover", o.res, TRUE, o.res, NoDateTime, 0)
  /\ UNCHANGED <<phase, env, condition>>

\* the writer is closed from outside and the counter reset:
\* `writer_opt.take(); current_filesize = 0;`
ExternalClose ==
  /\ phase = "ready"
  /\ \E st \in take_writer(Engine) :
       /\ st.faults <= fault_budget
       /\ SetEngine([st EXCEPT !.current_filesize = 0])
  /\ ev' = Event("close", Ok, FALSE, Ok, NoDateTime, 0)
  /\ UNCHANGED <<phase, env, condition, accepted>>

Next ==
  \/ Construct
  \/ WriteWithDatetime
  \/ Flush
  \/ Rollover
  \/ ExternalClose

Spec == Init /\ [][Next]_vars

\* --------------------------------------------------------- specifications
\* a size threshold and no frequency, one timestamp
InitSize ==
  /\ Init
  /\ condition.max_size_opt.some
  /\ ~condition.frequency_opt.some
  /\ instants = {BaseTime}
  /\ fault_budget \in {0, MaxFaults}

SpecSize == InitSize /\ [][Next]_vars

\* as InitSize, in a directory that holds no file with a suffix above
\* max(max_files, 1)
InitClean ==
  /\ InitSize
  /\ \A i \in 1..MaxIdx : files[i].exists => i <= Max2(max_files, 1)

SpecClean == InitClean /\ [][Next]_vars

\* as InitSize, with a file system that never fails
InitNoFail ==
  /\ InitSize
  /\ fault_budget = 0

SpecNoFail == InitNoFail /\ [][Next]_vars

\* daily rotation without size threshold, timestamps of two days, a file
\* system in which calls may fail
InitFault ==
  /\ Init
  /\ condition.frequency_opt = SomeFreq("EveryDay")
  /\ ~condition.max_size_opt.some
  /\ instants = {BaseTime, NextDay}
  /\ fault_budget = MaxFaultsDeep

SpecFault == InitFault /\ [][Next]_vars

\* daily rotation without size threshold, timestamps of two days, one more
\* write than elsewhere, one call of the file system that may fail, an empty
\* directory or one with an active file and the backup .1
RetryWrites == MaxWrites + 1

InitRetry ==
  /\ Init
  /\ condition.frequency_opt = SomeFreq("EveryDay")
  /\ ~condition.max_size_opt.some
  /\ instants = {BaseTime, NextDay}
  /\ fault_budget = MaxFaults
  /\ max_files = MaxFilesBound
  /\ files \in {Dir(Absent, {}), Dir(File(Rep(0, MaxPreLen)), {1})}

WriteRetry == WriteCalls(RetryWrites)

NextRetry ==
  \/ Construct
  \/ WriteRetry
  \/ Flush
  \/ Rollover
  \/ ExternalClose

SpecRetry == InitRetry /\ [][NextRetry]_vars

\* a frequency and no size threshold, all timestamps, a directory without
\* stale backups
InitFreq ==
  /\ Init
  /\ condition.frequency_opt.some
  /\ ~condition.max_size_opt.some
  /\ instants = DateTime
  /\ max_files = MaxFilesBound
  /\ fault_budget \in {0, MaxFaults}
  /\ files \in {Dir(Absent, {}), Dir(File(Rep(0, MaxPreLen)), 1..max_files)}

SpecFreq == InitFreq /\ [][Next]_vars

\* the counter update of write_with_datetime on its own:
\* `current_filesize += u64::try_from(buf_len).unwrap_or(u64::MAX)` applied
\* to every tracked size and every buffer length of the word
InitAdd ==
  /\ phase = "add"
  /\ max_files = MaxFilesBound
  /\ condition = Condition(NoneTime, NoneFreq, NoneInt)
  /\ current_filesize \in 0..U64_MAX
  /\ writer_opt = Writer(<<>>)
  /\ files = Dir(File(<<>>), {})
  /\ faults = 0
  /\ fault_budget = 0
  /\ instants = {BaseTime}
  /\ accepted = <<>>
  /\ ev = NoEvent
  /\ probe = NoProbe

AddFilesize ==
  /\ phase = "add"
  /\ \E buf_len \in 0..U64_MAX :
       \E a \in add_filesize(current_filesize, buf_len) :
         /\ current_filesize' = a.v
         /\ phase' = IF a.panic THEN "panicked" ELSE "added"
         /\ ev' = Event("add", IF a.panic THEN Err("panic") ELSE OkLen(buf_len),
                        FALSE, Ok, NoDateTime, buf_len)
  /\ UNCHANGED <<env, condition, writer_opt, files, faults, accepted>>

NextAdd == AddFilesize

SpecAdd == InitAdd /\ [][NextAdd]_vars

\* the ways a caller obtains a condition: new() alone, Default::default(),
\* and new() followed by frequency()/daily()/hourly() and/or max_size()
Constructions ==
  {[how |-> "new", cond |-> new_condition],
   [how |-> "default", cond |-> default]}
  \cup {[how |-> "builder", cond |-> c] : c \in Conditions \ {new_condition}}

\* should_rollover on its own: a condition from Constructions is evaluated
\* on every sequence of timestamps and sizes; probe carries how it was
\* constructed and a twin, new().daily(), that is handed the same calls
InitCond ==
  /\ phase = "cond"
  /\ \E c \in Constructions :
       /\ condition = c.cond
       /\ probe = [how |-> c.how, twin |-> daily(new_condition),
                   twin_rollover |-> FALSE]
  /\ max_files = MaxFilesBound
  /\ current_filesize = 0
  /\ writer_opt = NoWriter
  /\ files = Dir(Absent, {})
  /\ faults = 0
  /\ fault_budget = 0
  /\ instants = DateTime
  /\ accepted = <<>>
  /\ ev = NoEvent

ShouldRollover ==
  /\ phase = "cond"
  /\ \E now \in instants, current_size \in 0..(MaxThreshold + 1) :
       LET d == should_rollover(condition, now, current_size)
           t == should_rollover(probe.twin, now, current_size)
       IN /\ condition' = d.cond
          /\ probe' = [probe EXCEPT !.twin = t.cond,
                                    !.twin_rollover = t.rollover]
          /\ ev' = Event("should_rollover", Ok, d.rollover, Ok, now,
                         current_size)
  /\ UNCHANGED <<phase, max_files, fault_budget, instants, current_filesize,
                 writer_opt, files, faults, accepted>>

NextCond == ShouldRollover

SpecCond == InitCond /\ [][NextCond]_vars

\* a daily condition with or without a size threshold, timestamps of two
\* days, a file system in which a call may fail
InitDue ==
  /\ Init
  /\ condition.frequency_opt = SomeFreq("EveryDay")
  /\ instants = {BaseTime, NextDay}
  /\ fault_budget = MaxFaults

\* should_rollover on its own and inside write_with_datetime
InitRoll == InitCond \/ InitDue

NextRoll == Next \/ ShouldRollover

SpecRoll == InitRoll /\ [][NextRoll]_vars

\* rotate_files on its own, in every directory of files .0 .. .MaxIdx and
\* with every set of renames that fail; probe records that set
InitChain ==
  /\ phase = "chain"
  /\ max_files \in 0..MaxIdx
  /\ files \in {Dir(a, P) : a \in {Absent, File(Rep(0, MaxPreLen))},
                            P \in SUBSET (1..MaxIdx)}
  /\ probe = NoProbe
  /\ condition = new_condition
  /\ current_filesize = 0
  /\ writer_opt = NoWriter
  /\ faults = 0
  /\ fault_budget = MaxIdx + 1
  /\ instants = {BaseTime}
  /\ accepted = <<>>
  /\ ev = NoEvent

RotateFiles ==
  /\ phase = "chain"
  /\ LET n == Max2(max_files, 1)
     IN \E o \in rotate_files(Engine, max_files),
           fails \in SUBSET {i \in 0..(n - 1) : files[i].exists},
           f \in {files, [files EXCEPT ![n] = Absent]} :
          /\ o.st.files = rename_loop(f, n - 1, fails, Ok).files
          /\ o.res = rename_loop(f, n - 1, fails, Ok).res
          /\ o.st.faults = faults + Cardinality(fails)
                              + (IF f[n].exists THEN 1 ELSE 0)
          /\ SetEngine(o.st)
          /\ probe' = [how |-> "chain", fails |-> fails,
                       remove_failed |-> f[n].exists]
          /\ ev' = Event("rotate_files", o.res, TRUE, o.res, NoDateTime, 0)
  /\ phase' = "chained"
  /\ UNCHANGED <<max_files, fault_budget, instants, condition, accepted>>

NextChain == RotateFiles

SpecChain == InitChain /\ [][NextChain]_vars

\* rotate_files on its own and inside the appender, with a size threshold
\* and a file system in which a call may fail
InitEvict ==
  \/ InitChain
  \/ InitSize /\ fault_budget = MaxFaults

NextEvict == Next \/ RotateFiles

SpecEvict == InitEvict /\ [][NextEvict]_vars

\* ------------------------------------------------- vocabulary of the claims
\* the step is a write_with_datetime call
WriteStep == Len(accepted') = Len(accepted) + 1

\* the bytes of the buffer handed to the write of this step
StepBuf == Rep(Len(accepted'), ev'.len)

\* what the active file holds: the bytes on disk and the bytes accepted by
\* the writer that are still buffered
ActiveContent == files[0].data \o writer_opt.buf

Held == Len(ActiveContent)

MaxBackup == Max2(max_files, 1)

\* two timestamps are in the same period: the same calendar day, the same
\* hour of the same day, the same minute of the same hour
SameDay(a, b) == a.year = b.year /\ a.month = b.month /\ a.day = b.day

SameBucket(f, a, b) ==
  /\ SameDay(a, b)
  /\ f \in {"EveryHour", "EveryMinute"} => a.hour = b.hour
  /\ f = "EveryMinute" => a.minute = b.minute

\* the timestamp of this step's write is in another bucket than the last
\* timestamp the condition has seen
TimeDue ==
  /\ condition.frequency_opt.some
  /\ condition.last_write_opt.some
  /\ ~SameBucket(condition.frequency_opt.v, ev'.now,
                 condition.last_write_opt.v)

\* the writer that was open before this step's write is the one the
\* buffer is handed to: no rollover, or a rollover that failed in its flush
Continuing ==
  writer_opt.some /\ (~ev'.rolled \/ ev'.rollres.err = "flush")

\* the rollover called by this step's write returned an error
RolloverFailed == ev'.rolled /\ ~ev'.rollres.ok

\* ------------------------------------------------------------------ C1
\* C1 as stated, for behaviours in which no file-system call fails: with a
\* size threshold T, a write issued when the active file holds at least T
\* bytes rotates once before appending, so that its buffer lands in a fresh
\* active file, and a write issued when the file holds fewer than T bytes
\* performs no size-triggered rotation.
C1_AsStated ==
  [][(WriteStep /\ condition.max_size_opt.some /\ faults' = 0) =>
       /\ Held >= condition.max_size_opt.v =>
            /\ ev'.rolled
            /\ ev'.res.ok => ActiveContent' = StepBuf
       /\ Held < condition.max_size_opt.v => (ev'.rolled => TimeDue)
    ]_vars

\* C1 amended: the decision is taken on the tracked counter.  A write
\* issued while the counter is at least T calls rollover once before
\* appending; with the writer open and no file-system failure the counter is
\* what the active file holds, the rollover succeeds, the old active file is
\* backup .1 and the buffer is all the fresh active file holds.  A write
\* issued with the writer closed and the counter at 0 (T > 0) does not
\* rotate for size, whatever the file holds.  A write issued while the file
\* holds fewer than T bytes never rotates for size.
C1_SizeRotation ==
  [][(WriteStep /\ condition.max_size_opt.some) =>
       /\ current_filesize >= condition.max_size_opt.v => ev'.rolled
       /\ (writer_opt.some /\ faults' = 0
             /\ Held >= condition.max_size_opt.v) =>
            /\ current_filesize = Held
            /\ ev'.rolled /\ ev'.rollres.ok /\ ev'.res.ok
            /\ files'[1] = File(ActiveContent)
            /\ ActiveContent' = StepBuf
       /\ (~writer_opt.some /\ current_filesize = 0
             /\ condition.max_size_opt.v > 0) => (ev'.rolled => TimeDue)
       /\ Held < condition.max_size_opt.v => (ev'.rolled => TimeDue)
    ]_vars

\* a second write has rotated because the first one filled the file to the
\* threshold, and its buffer is alone in the fresh active file
C1_Witness ==
  /\ ev.op = "write" /\ ev.rolled /\ ev.rollres.ok /\ ev.res.ok
  /\ faults = 0
  /\ Len(accepted) = 2 /\ accepted[1].ok /\ accepted[1].rots = 1
  /\ accepted[1].len >= condition.max_size_opt.v
  /\ files[1].exists /\ 1 \in {files[1].data[i] : i \in 1..Len(files[1].data)}
  /\ ActiveContent = Rep(2, accepted[2].len)

\* ------------------------------------------------------------------ C2
\* C2: with a frequency and no size threshold, a write whose timestamp is
\* in the bucket of the write before it does not rotate (no backup
\* changes), and a write whose timestamp is in another bucket than the write
\* before it calls rollover exactly once before appending: when the
\* rollover succeeds every backup has moved up by one suffix (a missing
\* backup leaves the next suffix free, or, at the last suffix, leaves a
\* backup whose eviction failed), the old active file is .1 and the buffer
\* is all the fresh active file holds.
C2_BucketRotation ==
  [][(WriteStep /\ Len(accepted) >= 1
        /\ condition.frequency_opt.some /\ ~condition.max_size_opt.some) =>
       LET prev == accepted[Len(accepted)].now
           f == condition.frequency_opt.v
       IN /\ SameBucket(f, ev'.now, prev) =>
               /\ ~ev'.rolled
               /\ \A i \in 1..MaxIdx : files'[i] = files[i]
          /\ ~SameBucket(f, ev'.now, prev) =>
               /\ ev'.rolled
               /\ (ev'.rollres.ok /\ ev'.res.ok) =>
                    /\ \A i \in 1..(MaxBackup - 1) :
                         IF files[i].exists THEN files'[i + 1] = files[i]
                         ELSE \/ ~files'[i + 1].exists
                              \/ i + 1 = MaxBackup /\ files'[i + 1] = files[i + 1]
                    /\ files[0].exists => files'[1] = File(ActiveContent)
                    /\ ActiveContent' = StepBuf
    ]_vars

\* two writes in one bucket (different timestamps) share the active file,
\* and a third write in another bucket has rotated them to .1
C2_Witness ==
  /\ ev.op = "write" /\ ev.rolled /\ ev.rollres.ok /\ ev.res.ok
  /\ Len(accepted) = 2
  /\ condition.frequency_opt.some /\ ~condition.max_size_opt.some
  /\ ~SameBucket(condition.frequency_opt.v, accepted[1].now, accepted[2].now)
  /\ accepted[1].ok /\ accepted[1].rots = 1
  /\ files[1].exists /\ files[1].data = Rep(1, accepted[1].len)
  /\ ActiveContent = Rep(2, accepted[2].len)

C4_NoSuffixAboveN ==
  /\ \A i \in 1..MaxIdx : files[i].exists => i <= MaxBackup
  /\ Cardinality({i \in 1..MaxIdx : files[i].exists}) <= MaxBackup

\* max_files = 0 behaves as 1: after two rotations exactly the backup .1
\* exists and it holds the active file of the second rotation
C4_Witness ==
  /\ max_files = 0
  /\ ev.rolled /\ ev.rollres.ok
  /\ Len(accepted) = 2 /\ accepted[1].rots = 2 /\ accepted[2].rots = 1
  /\ accepted[2].ok
  /\ files[1] = File(Rep(2, accepted[2].len))
  /\ ~files[2].exists

\* ------------------------------------------------------------------ C5
\* the bytes of a file that come from writes of this instance
Written(bytes) == SelectSeq(bytes, LAMBDA b : b > 0)

\* what file i holds once the writer is flushed
Flushed(i) == IF i = 0 THEN ActiveContent ELSE files[i].data

\* the buffers of the successful writes 1..k that have been followed by
\* exactly r rotations, in write order
RECURSIVE Expected(_, _)
Expected(k, r) ==
  IF k = 0 THEN <<>>
  ELSE Expected(k - 1, r)
         \o (IF accepted[k].ok /\ accepted[k].rots = r
             THEN Rep(k, accepted[k].len) ELSE <<>>)

\* C5: with no file-system failure, once flushed, the file with suffix
\* r <= N holds, after the bytes it had before construction, exactly the
\* buffers of the writes followed by r rotations, in write order and with
\* nothing between them; the files with a suffix above N hold no written
\* buffer, so a buffer followed by more than N rotations is in no file and
\* no buffer is in two files.
C5_RoundTrip ==
  faults = 0 =>
    \A i \in 0..MaxIdx :
      /\ Written(Flushed(i)) =
           (IF i <= MaxBackup THEN Expected(Len(accepted), i) ELSE <<>>)
      /\ \A j \in 1..Len(Flushed(i)) :
           (j > 1 /\ Flushed(i)[j] <= 0) => Flushed(i)[j - 1] <= 0

\* after a flush with max_files = 2: the first buffer has been followed by
\* two rotations and is in .2, the second is in the active file, and the
\* bytes that were in the active file before construction are in .2 too
C5_Witness ==
  /\ ev.op = "flush" /\ ev.res.ok /\ faults = 0
  /\ writer_opt.some /\ writer_opt.buf = <<>>
  /\ max_files = 2
  /\ Len(accepted) = 2
  /\ accepted[1].rots = 2 /\ accepted[2].rots = 0
  /\ files[2].data = <<0, 0>> \o Rep(1, accepted[1].len)
  /\ files[1].exists /\ files[1].data = <<>>
  /\ files[0].data = Rep(2, accepted[2].len)

RotationDone ==
  /\ writer_opt' = Writer(<<>>)
  /\ current_filesize' = 0
  /\ files'[0] = File(<<>>)
  /\ files[0].exists => files'[1] = File(ActiveContent)

\* C7: a failure of the rollover called inside a write is not the write's
\* result: the write returns the buffer length unless a further call (its
\* own reopen or the append) fails; an explicit rollover() returns Ok
\* exactly when the rotation was carried out, and an error whenever the
\* flush, a rename or the reopen failed.
C7_RolloverErrorSurfacing ==
  [][/\ (WriteStep /\ RolloverFailed) =>
          /\ ev'.res.ok => ev'.res.n = ev'.len
          /\ ~ev'.res.ok => /\ ev'.res.err \in {"open", "write"}
                            /\ faults' >= faults + 2
     /\ (ev'.op = "rollover" /\ ev' # ev) =>
          /\ ev'.res.ok <=> RotationDone
          /\ ~ev'.res.ok => /\ ev'.res.err \in {"flush", "rename", "open"}
                            /\ faults' > faults
    ]_vars

\* a write whose rollover failed in the flush has returned its length
C7_Witness ==
  /\ ev.op = "write" /\ ev.rolled /\ ~ev.rollres.ok
  /\ ev.rollres.err = "flush"
  /\ ev.res.ok /\ ev.res.n = ev.len /\ ev.len > 0
  /\ faults = 1

\* an explicit rollover has returned the error of a failed rename
C7_WitnessExplicit ==
  /\ ev.op = "rollover" /\ ~ev.res.ok /\ ev.res.err = "rename"
  /\ ~writer_opt.some

\* ------------------------------------------------------------------ C8
\* C8: a write that fails returns the error of its reopen or of the append
\* and leaves the counter without the buffer length: unchanged when the
\* open writer was used or no rollover ran, 0 when a rollover had closed the
\* writer, the length read at the reopen otherwise.  A write that succeeds
\* returns exactly the buffer length and the counter has grown by exactly
\* that length: from its old value with the open writer, from the length
\* read at the reopen otherwise.
C8_WriteResultAndSize ==
  [][WriteStep =>
       IF ev'.res.ok
         THEN /\ ev'.res.n = ev'.len
              /\ Continuing => current_filesize' = current_filesize + ev'.len
              /\ (~Continuing /\ faults' = faults) =>
                   current_filesize' = Held'
              /\ ~Continuing =>
                   current_filesize' \in {Held', ev'.len}
         ELSE /\ ev'.res.err \in {"open", "write"}
              /\ faults' > faults
              /\ Continuing => current_filesize' = current_filesize
              /\ (~Continuing /\ ~writer_opt'.some) =>
                   current_filesize' = (IF ev'.rolled THEN 0
                                        ELSE current_filesize)
              /\ (~Continuing /\ writer_opt'.some) =>
                   /\ current_filesize' <= Held'
                   /\ faults' = faults + 1 =>
                        current_filesize' + ev'.len > Held'
    ]_vars

\* a write has failed in the append and the counter is what it was
C8_Witness ==
  /\ ev.op = "write" /\ ~ev.res.ok /\ ev.res.err = "write"
  /\ ~ev.rolled
  /\ Len(accepted) = 2 /\ accepted[1].ok /\ ~accepted[2].ok
  /\ current_filesize = accepted[1].len

\* ------------------------------------------------------------------ C9
\* C9: the increment of the tracked size saturates: for every tracked size
\* s and buffer length b of the word the new tracked size is
\* min(s + b, U64_MAX), never a wrapped value, and the call never aborts.
C9_Saturating ==
  [][ev'.op = "add" =>
       /\ phase' = "added"
       /\ current_filesize' = Min2(current_filesize + ev'.len, U64_MAX)
    ]_vars

\* ----------------------------------------------------------------- C10
\* C10: construct fails, leaving no instance, whenever the open of the
\* active file fails or the read of its size fails; it succeeds only when
\* both succeeded, that is when no file-system call of new() failed.
C10_ConstructFailsOnStat ==
  [][(phase = "new" /\ ev'.op = "new") =>
       /\ phase' = "ready" <=> faults' = faults
       /\ phase' = "failed" <=> faults' > faults
       /\ phase' = "failed" => ~writer_opt'.some
    ]_vars

\* ----------------------------------------------------------------- C11
\* the step is a new() that returned an instance
ConstructOk == phase = "new" /\ ev'.op = "new" /\ phase' = "ready"

\* C11: immediately after a successful construct the writer is open, the
\* active file exists with the content it had (empty if it was created), no
\* backup has been created, renamed or deleted, and the tracked size is the
\* length of the active file on disk.
C11_EagerOpen ==
  [][ConstructOk =>
       /\ writer_opt' = Writer(<<>>)
       /\ files'[0] = File(files[0].data)
       /\ \A i \in 1..MaxIdx : files'[i] = files[i]
       /\ current_filesize' = Len(files'[0].data)
    ]_vars

\* ----------------------------------------------------------------- C12
\* C12: in a state where no writer is open, flush returns Ok and changes
\* neither the tracked size, the writer, the condition nor any file; a
\* further flush finds the same state and returns the same.
C12_FlushWithoutWriter ==
  [][(~writer_opt.some /\ ev'.op = "flush") =>
       /\ ev'.res = Ok
       /\ UNCHANGED <<current_filesize, writer_opt, condition, files,
                      faults, phase>>
       /\ \A o \in flush(Engine') : o = Outcome(Engine, Ok)
    ]_vars

\* flush has returned Ok on an appender whose writer was lost in a rollover
\* that failed, with the written bytes in the backup .1
C12_Witness ==
  /\ ev.op = "flush" /\ ev.res.ok
  /\ ~writer_opt.some /\ faults = 1
  /\ Len(accepted) >= 1 /\ accepted[1].ok
  /\ files[1] = File(Rep(1, accepted[1].len))

\* ----------------------------------------------------------------- C13
\* C13: after the writer was closed from outside and the counter reset to 0
\* with L bytes in the active file, the next write that succeeds without
\* rotating reopens the file without truncating it: the file holds the old
\* L bytes followed by the new bytes and the tracked size is L plus the
\* buffer length.
C13_ReopenKeepsLength ==
  [][(WriteStep /\ ev.op = "close" /\ ~ev'.rolled /\ ev'.res.ok) =>
       /\ ActiveContent' = files[0].data \o StepBuf
       /\ current_filesize' = Len(files[0].data) + ev'.len
    ]_vars

\* ----------------------------------------------------------------- C14
\* the step is a should_rollover call made on the condition alone
CondStep == phase = "cond" /\ ev'.op = "should_rollover"

\* C14 as stated: a condition constructed without configuration, by new()
\* or by Default::default(), returns on every sequence of evaluations the
\* decisions of a daily condition.
C14_AsStated ==
  [][(CondStep /\ probe.how \in {"new", "default"}) =>
       ev'.rolled = probe'.twin_rollover
    ]_vars

\* C14 amended: the condition Default::default() returns is daily: on every
\* sequence of evaluations it and new().daily() return the same decisions
\* and stay equal.  The condition new() returns has nothing set: it never
\* asks for a rollover until frequency(), daily(), hourly() or max_size()
\* is called on it.
C14_DefaultIsDaily ==
  [][CondStep =>
       /\ probe.how = "default" =>
            /\ ev'.rolled = probe'.twin_rollover
            /\ condition' = probe'.twin
       /\ probe.how = "new" => ~ev'.rolled
    ]_vars

\* the default condition and its daily twin have both asked for a rollover
\* at a timestamp of the next day
C14_Witness ==
  /\ phase = "cond" /\ probe.how = "default"
  /\ ev.op = "should_rollover" /\ ev.rolled /\ probe.twin_rollover
  /\ ev.now = NextDay

\* ----------------------------------------------------------------- C15
\* the step is an explicit rollover() call
RolloverStep == phase = "ready" /\ ev'.op = "rollover"

\* C15: an explicit rollover() that returns Ok has rotated, whatever the
\* condition, the tracked size and the timestamps seen: the file that was
\* active, with every byte accepted so far, is .1, every backup i below
\* N = max(max_files, 1) is at i + 1, the active file is new and empty, the
\* writer is open and the tracked size is 0; the condition is not touched.
C15_ExplicitRollover ==
  [][(RolloverStep /\ ev'.res.ok) =>
       /\ files[0].exists => files'[1] = File(ActiveContent)
       /\ \A i \in 1..(MaxBackup - 1) :
            files[i].exists => files'[i + 1] = files[i]
       /\ files'[0] = File(<<>>)
       /\ writer_opt' = Writer(<<>>)
       /\ current_filesize' = 0
       /\ condition' = condition
    ]_vars

\* an explicit rollover has rotated an active file that held one byte,
\* fewer than the threshold: the byte is in .1, the backup that was .1 (the
\* file found at construction) is .2, the active file is empty
C15_Witness ==
  /\ ev.op = "rollover" /\ ev.res.ok
  /\ max_files = 2
  /\ condition.max_size_opt.some /\ condition.max_size_opt.v > 1
  /\ Len(accepted) = 1 /\ accepted[1].ok /\ accepted[1].rots = 1
  /\ files[1] = File(<<1>>)
  /\ files[2] = File(Rep(0, MaxPreLen))
  /\ files[0] = File(<<>>) /\ writer_opt = Writer(<<>>)
  /\ current_filesize = 0

\* ----------------------------------------------------------------- C16
\* the step runs rollover(), called explicitly or by a write
RolloverRuns == RolloverStep \/ (WriteStep /\ ev'.rolled)

\* C16: the flush is the first step of a rollover.  If it fails, the
\* rollover returns that error with the writer still open, no file deleted
\* or renamed and no accepted byte lost, and an explicit call leaves the
\* tracked size unchanged.  If the active file is renamed, it is renamed
\* with every byte accepted by earlier writes in it.
C16_FlushBeforeRename ==
  [][RolloverRuns =>
       /\ ev'.rollres.err = "flush" =>
            /\ writer_opt'.some
            /\ \A i \in 1..MaxIdx : files'[i] = files[i]
            /\ files'[0].exists
            /\ RolloverStep => /\ ActiveContent' = ActiveContent
                               /\ current_filesize' = current_filesize
       /\ (/\ ev'.rollres.err # "flush"
           /\ ~(ev'.rollres.err = "rename" /\ ev'.rollres.idx = 0)
           /\ files[0].exists) =>
            files'[1] = File(ActiveContent)
    ]_vars

\* an explicit rollover has failed in its flush: the byte accepted by the
\* write before it is still in the buffer of the open writer and counted
C16_Witness ==
  /\ ev.op = "rollover" /\ ev.res.err = "flush"
  /\ writer_opt = Writer(<<1>>)
  /\ files[0] = File(<<>>) /\ ~files[1].exists
  /\ current_filesize = 1
  /\ Len(accepted) = 1 /\ accepted[1].ok /\ accepted[1].rots = 0

\* ----------------------------------------------------------------- C17
\* the step calls should_rollover: on the condition alone, or as the first
\* statement of a write
EvalStep == CondStep \/ WriteStep

\* the size handed to the should_rollover call of this step
EvalSize == IF phase = "cond" THEN ev'.len ELSE current_filesize

SizeDue ==
  /\ condition.max_size_opt.some
  /\ EvalSize >= condition.max_size_opt.v

\* C17: should_rollover returns (a frequency is configured, a timestamp is
\* recorded and the period of now differs from the recorded one's) or (a
\* size threshold is configured and the size is at least the threshold);
\* a write for which both hold rotates once: without a file-system failure
\* the old active file is .1, each backup has moved up by one suffix only,
\* and the buffer is all the new active file holds.
C17_EitherTriggers ==
  [][EvalStep =>
       /\ ev'.rolled <=> (TimeDue \/ SizeDue)
       /\ (WriteStep /\ TimeDue /\ SizeDue /\ faults' = faults) =>
            /\ ev'.rollres.ok /\ ev'.res.ok
            /\ files[0].exists => files'[1] = File(ActiveContent)
            /\ \A i \in 1..(MaxBackup - 1) :
                 files[i].exists => files'[i + 1] = files[i]
            /\ \A i \in (MaxBackup + 1)..MaxIdx : files'[i] = files[i]
            /\ ActiveContent' = StepBuf
    ]_vars

\* a write on the next day after a write that filled the file to the
\* threshold: both tests held, and the files have moved up by one
C17_Witness ==
  /\ ev.op = "write" /\ ev.rolled /\ ev.rollres.ok /\ ev.res.ok
  /\ faults = 0 /\ max_files = 2
  /\ condition.max_size_opt.some /\ condition.frequency_opt.some
  /\ Len(accepted) = 2
  /\ accepted[1].now = BaseTime /\ accepted[2].now = NextDay
  /\ accepted[1].len >= condition.max_size_opt.v
  /\ files[1] = File(Rep(1, accepted[1].len))
  /\ files[2] = File(Rep(0, MaxPreLen))
  /\ ActiveContent = Rep(2, accepted[2].len)

\* a size-only condition has asked for a rollover on the condition alone
C17_WitnessSizeOnly ==
  /\ phase = "cond" /\ ev.op = "should_rollover" /\ ev.rolled
  /\ ~condition.frequency_opt.some /\ condition.max_size_opt.some
  /\ ev.len = condition.max_size_opt.v

\* ----------------------------------------------------------------- C18
\* C18: after every should_rollover call, whatever the configuration and
\* the decision, the recorded timestamp is the now of the call and the
\* configuration is unchanged; in the engine this holds after every write,
\* those whose rollover or append failed included.
C18_LastWriteRefreshed ==
  [][EvalStep =>
       condition' = [condition EXCEPT !.last_write_opt = SomeTime(ev'.now)]
    ]_vars

\* a write of the next day has called rollover and has returned an error,
\* and the condition has recorded its timestamp
C18_Witness ==
  /\ ev.op = "write" /\ ev.rolled /\ ~ev.res.ok
  /\ ev.now = NextDay /\ condition.last_write_opt = SomeTime(NextDay)
  /\ Len(accepted) = 2 /\ accepted[1].now = BaseTime

\* ----------------------------------------------------------------- C19
\* C19: on the first should_rollover call of a condition (no timestamp
\* recorded) the decision is exactly the size test, whatever frequency is
\* configured; a first write that does not meet the size test leaves every
\* backup as it was and appends to the content the active file held.
C19_FirstCallSkipsTime ==
  [][(EvalStep /\ ~condition.last_write_opt.some) =>
       /\ ev'.rolled <=> SizeDue
       /\ (WriteStep /\ ~SizeDue) =>
            /\ \A i \in 1..MaxIdx : files'[i] = files[i]
            /\ ev'.res.ok => ActiveContent' = ActiveContent \o StepBuf
    ]_vars

\* the first write of an appender with a daily condition, made on the next
\* day into a file that held content at construction, has appended to it
C19_Witness ==
  /\ ev.op = "write" /\ ev.res.ok /\ ~ev.rolled
  /\ Len(accepted) = 1 /\ ev.now = NextDay
  /\ condition.frequency_opt = SomeFreq("EveryDay")
  /\ ActiveContent = Rep(0, MaxPreLen) \o Rep(1, accepted[1].len)
  /\ files[1] = File(<<-1>>)

\* ----------------------------------------------------------------- C20
\* the lowest index of a non-empty set of indices
MinOf(S) == CHOOSE x \in S : \A y \in S : x <= y

\* C20: the rename chain visits every index from max(max_files, 1) - 1 down
\* to 0 whatever failed before: every file whose rename does not fail is at
\* the next suffix afterwards, a missing source is no failure, the result
\* is Ok exactly when no rename failed and otherwise the error of the
\* failing rename visited last, the one of the lowest index.
C20_RenameChain ==
  [][(phase = "chain" /\ ev'.op = "rotate_files") =>
       LET F == probe'.fails
       IN /\ \A i \in 0..(MaxBackup - 1) :
               (files[i].exists /\ i \notin F) => files'[i + 1] = files[i]
          /\ \A i \in 0..(MaxBackup - 1) :
               (~files[i].exists /\ (i = 0 \/ ~files[i - 1].exists
                                            \/ i - 1 \in F)) =>
                 ~files'[i].exists
          /\ \A i \in F : files[i].exists
          /\ ev'.res.ok <=> F = {}
          /\ F # {} => ev'.res = ErrAt("rename", MinOf(F))
    ]_vars

\* the renames of .2 and .1 have failed and the active file has still been
\* renamed; the result is the error of the rename of .1
C20_Witness ==
  /\ phase = "chained" /\ max_files = 3
  /\ probe.fails = {1, 2}
  /\ ev.res = ErrAt("rename", 1)
  /\ files[1] = File(Rep(0, MaxPreLen))
  /\ ~files[0].exists

\* ----------------------------------------------------------------- C21
\* C21 as stated: once the rename chain of a rollover has run, no file
\* exists at index 0: a rollover that got past its flush either returns Ok
\* with a new, empty active file or returns an error with no active file.
C21_AsStated ==
  [][(RolloverStep /\ ev'.res.err # "flush") =>
       IF ev'.res.ok THEN files'[0] = File(<<>>)
       ELSE ~files'[0].exists
    ]_vars

\* C21 amended: after a rename chain that returned Ok no file exists at
\* index 0, so the reopen of the rollover creates a new, empty active file;
\* the same holds for the file system when the chain failed at an index
\* above 0 or the reopen failed, but then the rollover does not reopen.
\* When the rename of index 0 fails, the active file stays where it is with
\* its content, the rollover returns the error without reopening, and the
\* reopen of the next write opens that file.
C21_ActiveAfterChain ==
  [][/\ (RolloverStep /\ ev'.res.err # "flush") =>
          /\ ev'.res.ok =>
               files'[0] = File(<<>>) /\ writer_opt' = Writer(<<>>)
          /\ ~ev'.res.ok => ~writer_opt'.some
          /\ (~ev'.res.ok /\ ev'.res.idx # 0) => ~files'[0].exists
          /\ (ev'.res.err = "rename" /\ ev'.res.idx = 0) =>
               files'[0] = File(ActiveContent)
     /\ (WriteStep /\ ev.op = "rollover" /\ ev.res.err = "rename"
           /\ ev.res.idx = 0 /\ ~ev'.rolled /\ ev'.res.ok) =>
          ActiveContent' = files[0].data \o StepBuf
    ]_vars

\* the rename of the active file has failed in an explicit rollover: the
\* file is still at index 0 with the byte written before, no writer is open
C21_Witness ==
  /\ ev.op = "rollover" /\ ev.res = ErrAt("rename", 0)
  /\ files[0] = File(<<1>>) /\ ~writer_opt.some
  /\ Len(accepted) = 1 /\ accepted[1].ok

\* ----------------------------------------------------------------- C22
\* the step is a rotate_files call made on its own
ChainStep == phase = "chain" /\ ev'.op = "rotate_files"

\* C22: a remove_file of index N = max(max_files, 1) that fails is
\* absorbed: every rename of the chain that does not fail is still carried
\* out, the backup that could not be deleted is replaced by the rename from
\* N - 1 or stays as it is, the result of the chain is decided by the
\* renames alone, and neither rollover nor a write returns or records an
\* error other than those of the flush, a rename, the reopen or the append.
C22_EvictionFailureAbsorbed ==
  [][/\ (ChainStep /\ probe'.remove_failed) =>
          /\ \A i \in 0..(MaxBackup - 1) :
               (files[i].exists /\ i \notin probe'.fails) =>
                 files'[i + 1] = files[i]
          /\ (~files[MaxBackup - 1].exists
                \/ MaxBackup - 1 \in probe'.fails) =>
               files'[MaxBackup] = files[MaxBackup]
          /\ ev'.res.ok <=> probe'.fails = {}
          /\ ev'.res.err \in {"", "rename"}
     /\ RolloverRuns =>
          /\ ev'.rollres.err \in {"", "flush", "rename", "open"}
          /\ WriteStep => ev'.res.err \in {"", "open", "write"}
    ]_vars

\* the backup .2 could not be deleted and no file was at .1 to replace
\* it: it is still there, the active file has become .1, the chain
\* returned Ok
C22_Witness ==
  /\ phase = "chained" /\ max_files = 2
  /\ probe.remove_failed /\ probe.fails = {}
  /\ ev.res.ok
  /\ files[2] = File(<<-2>>)
  /\ files[1] = File(Rep(0, MaxPreLen))
  /\ ~files[0].exists
  /\ faults = 1

\* ----------------------------------------------------------------- C23
\* C23: no write returns the error "writer is missing": a write whose
\* reopen fails returns the error of the open and leaves no writer, and
\* after every other write, and after every successful construct, the
\* writer is open.
C23_WriterNeverMissing ==
  [][/\ WriteStep =>
          /\ ev'.res.err # "writer is missing"
          /\ ev'.res.err = "open" =>
               ~writer_opt'.some /\ faults' > faults
          /\ ev'.res.err # "open" => writer_opt'.some
     /\ ConstructOk => writer_opt'.some
    ]_vars

\* a write has found the writer closed, its reopen has failed and it has
\* returned the error of the open
C23_Witness ==
  /\ ev.op = "write" /\ ev.res = Err("open")
  /\ ~ev.rolled /\ ~writer_opt.some

\* ----------------------------------------------------------------- C24
\* C24: backups change only in a rotation.  A step that runs no rollover
\* (a write whose condition asks for none, with or without a reopen, a
\* flush, a construct, a close) leaves every backup as it is.  In a
\* rollover a backup appears or changes at suffix i only by the rename of
\* the file at i - 1, and a suffix becomes free only by the eviction at
\* N = max(max_files, 1) or because its file was renamed to i + 1.
C24_BackupsChangeOnlyInRotation ==
  [][/\ ~RolloverRuns => \A i \in 1..MaxIdx : files'[i] = files[i]
     /\ RolloverRuns =>
          \A i \in 1..MaxIdx :
            files'[i] # files[i] =>
              \/ /\ i <= MaxBackup
                 /\ files[i - 1].exists
                 /\ files'[i] = (IF i = 1 THEN File(ActiveContent)
                                 ELSE files[i - 1])
              \/ /\ ~files'[i].exists
                 /\ \/ i = MaxBackup
                    \/ i < MaxBackup /\ files'[i + 1] = files[i]
    ]_vars

\* after an explicit rollover and a close, a write that did not rotate has
\* reopened the active file; the backup .1 still holds the first write
C24_Witness ==
  /\ ev.op = "write" /\ ~ev.rolled /\ ev.res.ok
  /\ Len(accepted) = 2 /\ accepted[1].ok /\ accepted[1].rots = 1
  /\ files[1] = File(Rep(1, accepted[1].len))
  /\ ActiveContent = Rep(2, accepted[2].len)

\* ----------------------------------------------------------------- C25
\* C25 as stated: whenever the writer is open, the tracked size is the
\* number of bytes the active file holds on disk plus the number of bytes
\* accepted by the writer and still buffered.
C25_TrackedSizeIsHeld ==
  writer_opt.some => current_filesize = Held

\* ----------------------------------------------------------------- C26
\* C26: the condition is evaluated on the tracked counter before the writer
\* is reopened.  A write issued with the writer absent and the counter at 0
\* (after an external close with reset, or after a rollover that failed in
\* its rename chain), under a threshold T > 0, performs no size-triggered
\* rotation even when the active file on disk holds T bytes or more: no
\* backup changes, and the length on disk is read only afterwards, so that
\* with no failing call the buffer is appended to what the file held and
\* the counter is that length plus the length of the buffer.
C26_DecisionBeforeReopen ==
  [][(WriteStep /\ ~writer_opt.some /\ current_filesize = 0
        /\ condition.max_size_opt.some /\ condition.max_size_opt.v > 0) =>
       /\ ev'.rolled => TimeDue
       /\ ~ev'.rolled =>
            /\ \A i \in 1..MaxIdx : files'[i] = files[i]
            /\ (ev'.res.ok /\ faults' = faults) =>
                 /\ ActiveContent' = files[0].data \o StepBuf
                 /\ current_filesize' = Len(files[0].data) + ev'.len
    ]_vars

\* with no failing call, the first write was issued after a close on a file
\* that held the threshold already: it did not rotate, and the counter is
\* now above the threshold
C26_Witness ==
  /\ ev.op = "write" /\ ~ev.rolled /\ ev.res.ok /\ faults = 0
  /\ Len(accepted) = 1
  /\ condition.max_size_opt.some /\ condition.max_size_opt.v > 0
  /\ ActiveContent = Rep(0, MaxPreLen) \o Rep(1, accepted[1].len)
  /\ MaxPreLen >= condition.max_size_opt.v
  /\ current_filesize = MaxPreLen + accepted[1].len
  /\ ~files[1].exists

\* ----------------------------------------------------------------- C27
\* the condition rotates on a change of period only
TimeOnly == condition.frequency_opt.some /\ ~condition.max_size_opt.some

\* the last operation was a write whose rollover failed, and this step is a
\* write with a timestamp in the bucket of that write
WriteAfterFailure ==
  /\ WriteStep /\ TimeOnly
  /\ ev.op = "write" /\ ev.rolled /\ ~ev.rollres.ok
  /\ SameBucket(condition.frequency_opt.v, ev'.now, ev.now)

\* the bytes of the first write, accepted in an earlier period than the one
\* of the failed rollover
OldPeriodBytes ==
  IF /\ Len(accepted) >= 2 /\ accepted[1].ok
     /\ ~SameBucket(condition.frequency_opt.v, accepted[1].now, ev.now)
    THEN {1} ELSE {}

C28_ExplicitRolloverKeepsCondition ==
  [][/\ RolloverStep => condition' = condition
     /\ (WriteStep /\ ev.op = "rollover" /\ TimeDue) => ev'.rolled
     /\ (WriteStep /\ ev.op = "rollover" /\ ev.res.ok /\ TimeDue
           /\ faults' = faults) =>
          /\ ev'.rollres.ok /\ ev'.res.ok
          /\ ActiveContent = <<>>
          /\ files'[1] = File(<<>>)
          /\ (MaxBackup >= 2 /\ files[1].exists) => files'[2] = files[1]
          /\ ActiveContent' = StepBuf
    ]_vars

\* in an empty directory and with no failing call: a write on the first
\* day, an explicit rollover, a write on the next day that rotated again;
\* the first write is .2, the empty file of the explicit rollover is .1
C28_Witness ==
  /\ ev.op = "write" /\ ev.rolled /\ ev.rollres.ok /\ ev.res.ok
  /\ faults = 0 /\ max_files = MaxFilesBound
  /\ Len(accepted) = 2
  /\ accepted[1].now = BaseTime /\ accepted[2].now = NextDay
  /\ files[2] = File(Rep(1, accepted[1].len))
  /\ files[1] = File(<<>>)
  /\ ActiveContent = Rep(2, accepted[2].len)

\* ----------------------------------------------------------------- C29
\* C29 as stated: a rotation drops only the content of the backup at index
\* N = max(max_files, 1).  In every run of the chain, a failing rename
\* included, the content of every other file that existed before is the
\* content of some file of the series afterwards.
C29_OnlyEvictedContentLost ==
  [][ChainStep =>
       \A i \in (0..MaxIdx) \ {MaxBackup} :
         files[i].exists => \E j \in 0..MaxIdx : files'[j] = files[i]
    ]_vars

====
